---- MODULE Spec2Model ----
(***************************************************************************)
(* Verification model of flv-keyframes: the virtual patched reader         *)
(* (src/patch.rs), the keyframe index (src/keyframes.rs) and the FLV scan  *)
(* that synthesizes the patch (src/main.rs, src/flv.rs).                   *)
(*                                                                         *)
(* Seven specifications share the module:                                  *)
(*   Spec       PatchedReader: logical seeks and reads over (file, patch)  *)
(*   SpecScan   generate_patch of main.rs over an FLV given as its tags    *)
(*   SpecFlv    generate_patch of flv.rs over the bytes of an FLV          *)
(*   SpecReader read_flv of flv_reader.rs over the bytes of an FLV         *)
(*   SpecServe  handle_get of main.rs: requests for one source file        *)
(*   SpecPoll   PatchedReader::poll_read poll by poll over a back-end that *)
(*              may return Pending                                         *)
(*   SpecStream PatchedStream::poll_next over a chunked stream             *)
(***************************************************************************)
EXTENDS Integers, Sequences, FiniteSets, TLC

VARIABLES
    \* ---- PatchedReader (src/patch.rs) ----
    original,       \* bytes of the original file behind the back-end reader
    patch,          \* Patch { origin_pos, origin_size, patched }
    offset,         \* PatchedReader.offset, the logical position
    origin_length,  \* PatchedReader.origin_length
    reader_pos,     \* cursor of the back-end reader (state of `reader`)
    fault,          \* TRUE once poll_read has panicked
    op,             \* the last operation: "new", "seek", "read"
    lastRead,       \* what the last poll_read was given and what it returned
    seekFrom,       \* logical offset set by the last seek (0 after new)
    acc,            \* bytes delivered by the reads since the last seek
    reads,          \* number of reads since the last seek
    backSeeks,      \* seeks handed to the back-end since the last logical
                    \* seek (SpecPoll counts up to MaxSeeksCounted)
    \* ---- generate_patch / generate_keyframes (src/main.rs) ----
    flv,            \* the FLV being scanned: [tags |-> sequence of tags]
    rbuf,           \* generate_patch: buf (ReadBuf) and the cursor of `file`
    idx,            \* number of tags the decoder has delivered
    scan_offset,    \* generate_patch: offset
    keyframes,      \* generate_patch: keyframes (Keyframes)
    metadata_offset,\* generate_patch: metadata_offset
    metadata_size,  \* generate_patch: metadata_size
    metadata,       \* generate_patch: metadata (Option<amf0::Value>)
    pass1_len,      \* generate_patch: patched_len of the first make_patched
    result,         \* what generate_patch returned, "Running" until then
    sidecar,        \* generate_keyframes: "pending", then "none", or
                    \* "created", "queued" and "written"
    round,          \* 1: scan of the original, 2: scan of its patched view
    source,         \* the original FLV and the Patch made from it (round 2)
    \* ---- generate_patch (src/flv.rs) ----
    fbytes,         \* bytes of the FLV file read through `file`
    fpos,           \* cursor of `file`
    \* ---- read_flv (src/flv_reader.rs) ----
    header,         \* the FlvHeader decoded by read_flv_header
    lastTag,        \* the FlvTag the stream yielded last
    \* ---- handle_get (src/main.rs) ----
    patch_file,     \* the sidecar on disk: absent, a written Patch, or corrupt
                    \* (empty or partly written)
    requests,       \* the requests: where each handle_get stands, what it
                    \* opened and read, what its scan returned, its outcome
    streaming,      \* the request whose PatchedReader the reader variables
                    \* follow (the last to arrive), and the answer
                    \* reply_with_patch gave it
    write_queue,    \* the requests whose write of the sidecar is queued in
                    \* the blocking pool and has not reached the disk
    source_present, \* whether the source file is still at its path
    scans,          \* runs of generate_patch started so far
    served,         \* requests that were answered with a response so far
    \* ---- PatchedReader::poll_read, poll by poll (src/patch.rs) ----
    backend,        \* the operation in flight in the back-end reader
    polled,         \* the Read being polled: its buffer, and what it did
    \* ---- PatchedStream (src/patch.rs) ----
    chunks,         \* chunks the underlying stream has yet to yield
    ps_patch,       \* PatchedStream.patch (Option<Patch>)
    ps_offset,      \* PatchedStream.offset
    emitted,        \* bytes PatchedStream has yielded so far
    ps_state        \* "open", "ended" (Ready(None)) or "panic"

rvars == <<original, patch, offset, origin_length, reader_pos, fault, op,
           lastRead, seekFrom, acc, reads, backSeeks>>

svars == <<flv, rbuf, idx, scan_offset, keyframes, metadata_offset, metadata_size,
           metadata, pass1_len, result, sidecar, round, source>>

fvars == <<fbytes, fpos>>

dvars == <<header, lastTag>>

hvars == <<patch_file, requests, streaming, write_queue, source_present,
           scans, served>>

pvars == <<backend, polled>>

tvars == <<chunks, ps_patch, ps_offset, emitted, ps_state>>

vars == <<rvars, svars, fvars, dvars, hvars, pvars, tvars>>

----------------------------------------------------------------------------
(* Bounds of the model *)
MaxOrig == 3        \* longest original file, in bytes
MaxPatched == 2     \* longest patch.patched, in bytes
MaxBuf == 2         \* largest buffer handed to poll_read
MaxReads == 3       \* reads followed after one seek
MaxSeekPast == 1    \* how far past len() a logical seek may land

Min(a, b) == IF a < b THEN a ELSE b
Max(a, b) == IF a > b THEN a ELSE b

----------------------------------------------------------------------------
(* PatchedReader                                                           *)

\* The byte stored at position i (0-based) of the original file, and the
\* byte at position j of patch.patched: all distinct, so that a read can be
\* told from any other.
OrigByte(i) == 10 + i
PatchByte(j) == 100 + j

OrigFile(n) == [i \in 1..n |-> OrigByte(i - 1)]
PatchBytes(n) == [j \in 1..n |-> PatchByte(j - 1)]

\* The patches a reader is built with: the replaced region lies inside the
\* original file (Patch { 0, 0, [] } is the dummy patch of reply_with_patch).
Patches(n) ==
    { [origin_pos |-> p, origin_size |-> s, patched |-> PatchBytes(l)] :
        p \in 0..n, s \in 0..n, l \in 0..MaxPatched }

WellFormedPatch(pt, n) == pt.origin_pos + pt.origin_size <= n

patched_len == Len(patch.patched)

len_no_origin_size == origin_length + patched_len

len == origin_length + patched_len - patch.origin_size

\* PatchedReader::new: seek(End(0)) on the back-end returns the file length
\* and leaves the back-end cursor there.
NewReader(file, pt) ==
    /\ original = file
    /\ patch = pt
    /\ offset = 0
    /\ origin_length = Len(file)
    /\ reader_pos = Len(file)
    /\ fault = FALSE
    /\ op = "new"
    /\ lastRead = [at |-> 0, cap |-> 0, ret |-> 0, data |-> <<>>, from |-> "none"]
    /\ seekFrom = 0
    /\ acc = <<>>
    /\ reads = 0
    /\ backSeeks = 0

IdleScan ==
    /\ flv = [tags |-> <<>>]
    /\ rbuf = [head |-> 0, tail |-> 0, pos |-> 0, eos |-> FALSE]
    /\ idx = 0
    /\ scan_offset = 0
    /\ keyframes = [filepositions |-> <<>>, times |-> <<>>, offset |-> 0]
    /\ metadata_offset = 0
    /\ metadata_size = 0
    /\ metadata = [kind |-> "None"]
    /\ pass1_len = 0
    /\ result = [kind |-> "Idle"]
    /\ sidecar = "pending"
    /\ round = 0
    /\ source = [kind |-> "None"]
    /\ fbytes = <<>>
    /\ fpos = 0

\* No header decoded and no tag yielded.
IdleDecoder ==
    /\ header = [kind |-> "None"]
    /\ lastTag = [kind |-> "None"]

\* No Read being polled, the back-end idle.
IdlePoll ==
    /\ backend = [op |-> "none", delay |-> 0, target |-> 0, size |-> 0]
    /\ polled = [active |-> FALSE, cap |-> 0, restarted |-> FALSE]

\* No PatchedStream.
IdleStream ==
    /\ chunks = <<>>
    /\ ps_patch = [kind |-> "None"]
    /\ ps_offset = 0
    /\ emitted = <<>>
    /\ ps_state = "ended"

MaxRequests == 3        \* requests received in a run

\* Patch { origin_pos: 0, origin_size: 0, patched: vec![] }
DummyPatch == [origin_pos |-> 0, origin_size |-> 0, patched |-> <<>>]

\* A request that has not arrived.
\* pc: where its handle_get stands; opened: the Option<File> it holds of
\* the sidecar; after_served: whether a request had been served when it arrived;
\* result: what its generate_patch returned; got: how much of the sidecar
\* read_to_end has read; sidecar_read and patch: what reply_with_patch
\* got from the sidecar and the Patch it took.
NoRequest ==
    [pc |-> "none", opened |-> "Absent", after_served |-> FALSE,
     result |-> [kind |-> "Idle"], got |-> "nothing",
     sidecar_read |-> "none", patch |-> DummyPatch,
     response |-> [status |-> "none"]]

\* No response made yet.
NoBody ==
    [req |-> 0, range |-> [kind |-> "none", a |-> 0, b |-> 0],
     status |-> "none", content_length |-> 0, total |-> 0]

\* No sidecar on disk and no request received.
IdleServe ==
    /\ patch_file = [kind |-> "Absent"]
    /\ requests = [r \in 1..MaxRequests |-> NoRequest]
    /\ streaming = NoBody
    /\ write_queue = {}
    /\ source_present = TRUE
    /\ scans = 0
    /\ served = 0

Init ==
    /\ \E n \in 0..MaxOrig :
         \E pt \in Patches(n) :
           /\ WellFormedPatch(pt, n)
           /\ NewReader(OrigFile(n), pt)
    /\ IdleScan
    /\ IdleDecoder
    /\ IdlePoll
    /\ IdleStream
    /\ IdleServe

\* SeekFrom positions offered to start_seek
SeekPositions ==
    [kind : {"Start"}, i : 0..(MaxOrig + MaxPatched + MaxSeekPast)]
      \cup [kind : {"Current", "End"}, i : (0 - MaxOrig - MaxPatched)..MaxSeekPast]

\* start_seek: the new logical offset
SeekTargetFromFileEnd(position) ==
    CASE position.kind = "Start" -> position.i
      [] position.kind = "Current" -> offset + position.i
      [] position.kind = "End" -> origin_length + position.i

SeekTarget(position) ==
    CASE position.kind = "Start" -> position.i
      [] position.kind = "Current" -> offset + position.i
      [] position.kind = "End" -> len + position.i

\* start_seek / poll_complete. The sum is taken in i64 and cast back to u64;
\* the model follows the seeks whose target is a position of the file or at
\* most MaxSeekPast beyond its logical end.
start_seek(position) ==
    /\ ~fault
    /\ SeekTarget(position) \in 0..(len + MaxSeekPast)
    /\ offset' = SeekTarget(position)
    /\ op' = "seek"
    /\ seekFrom' = SeekTarget(position)
    /\ acc' = <<>>
    /\ reads' = 0
    /\ backSeeks' = 0
    /\ UNCHANGED <<original, patch, origin_length, reader_pos, fault, lastRead>>
    /\ UNCHANGED <<svars, fvars, dvars, pvars, tvars, hvars>>

\* poll_read, the region classification: (read_from, readable)
StartPoint(off) ==
    IF off < patch.origin_pos
    THEN [kind |-> "Origin", off |-> off, readable |-> patch.origin_pos - off]
    ELSE IF off > patch.origin_pos + patched_len
    THEN [kind |-> "Origin", off |-> off - patched_len + patch.origin_size,
          readable |-> 0]
    ELSE [kind |-> "Patch", off |-> off - patch.origin_pos,
          readable |-> patched_len - (off - patch.origin_pos)]

\* The byte counts a read of `size` bytes may return with the back-end
\* cursor at `pos`: 0 at end of file or for an empty buffer, else a count
\* from 1 up to what is there (a read may be short): the short counts up to
\* MaxBuf, and the whole of what was asked for.
BackendReadCounts(pos, size) ==
    LET avail == Max(0, Len(original) - pos)
        most == Min(size, avail)
    IN IF size = 0 \/ avail = 0 THEN {0}
       ELSE {n \in 1..most : n <= MaxBuf \/ n = most}

\* &patch.patched[off..read_size] panics when off > read_size or
\* read_size > |patched|; copy_from_slice panics on a length mismatch.
PatchCopyPanics(off, read_size) ==
    \/ off > read_size
    \/ read_size > patched_len
    \/ read_size - off # read_size

ReadDone(cap, n, data, from) ==
    /\ offset' = offset + n
    /\ lastRead' = [at |-> offset, cap |-> cap, ret |-> n, data |-> data,
                    from |-> from]
    /\ acc' = acc \o data
    /\ op' = "read"
    /\ reads' = reads + 1

poll_read(cap) ==
    /\ ~fault
    /\ reads < MaxReads
    /\ LET sp == StartPoint(offset)
           read_size == Min(cap, sp.readable)
       IN IF sp.kind = "Origin"
          THEN \E n \in BackendReadCounts(sp.off, read_size) :
                 /\ ReadDone(cap, n, SubSeq(original, sp.off + 1, sp.off + n),
                             IF n = 0 THEN "none" ELSE "origin")
                 /\ reader_pos' = sp.off + n
                 /\ backSeeks' = backSeeks + 1
                 /\ UNCHANGED fault
          ELSE IF PatchCopyPanics(sp.off, read_size)
          THEN /\ fault' = TRUE
               /\ lastRead' = [at |-> offset, cap |-> cap, ret |-> 0,
                               data |-> <<>>, from |-> "panic"]
               /\ op' = "read"
               /\ reads' = reads + 1
               /\ UNCHANGED <<offset, acc, reader_pos, backSeeks>>
          ELSE /\ ReadDone(cap, read_size,
                           SubSeq(patch.patched, sp.off + 1, read_size),
                           IF read_size = 0 THEN "none" ELSE "patch")
               /\ UNCHANGED <<fault, reader_pos, backSeeks>>
    /\ UNCHANGED <<original, patch, origin_length, seekFrom>>
    /\ UNCHANGED <<svars, fvars, dvars, pvars, tvars, hvars>>

Next ==
    \/ \E position \in SeekPositions : start_seek(position)
    \/ \E cap \in 0..MaxBuf : poll_read(cap)

Spec == Init /\ [][Next]_vars

----------------------------------------------------------------------------
(* AMF0 values (crate amf, used by src/main.rs and src/keyframes.rs)       *)

\* An f64 kept exact as the fraction n / d.
F64(n, d) == [n |-> n, d |-> d]

AmfNumber(x) == [kind |-> "Number", num |-> x, str |-> "", entries |-> <<>>]
AmfString(str) == [kind |-> "String", num |-> F64(0, 1), str |-> str, entries |-> <<>>]
AmfObject(entries) == [kind |-> "Object", num |-> F64(0, 1), str |-> "", entries |-> entries]
AmfEcmaArray(entries) == [kind |-> "EcmaArray", num |-> F64(0, 1), str |-> "", entries |-> entries]
\* A strict array; its items are kept as pairs with an empty key.
AmfArray(items) ==
    [kind |-> "Array", num |-> F64(0, 1), str |-> "",
     entries |-> [i \in 1..Len(items) |-> [key |-> "", value |-> items[i]]]]
Pair(key, value) == [key |-> key, value |-> value]

\* Byte length of the strings the model uses.
StrLen(str) ==
    CASE str = "onMetaData" -> 10
      [] str = "onCuePoint" -> 10
      [] str = "keyframes" -> 9
      [] str = "filepositions" -> 13
      [] str = "times" -> 5
      [] str = "duration" -> 8
      [] OTHER -> 0

\* An AMF0 number is a marker byte and an 8-byte big-endian double.
NumberSizeVarint(x) == IF x.d = 1 /\ x.n < 64 THEN 2 ELSE 9

NumberSize(x) == 9

\* Encoded length of an AMF0 value (Value::write_to).
RECURSIVE Amf0Size(_), PairsSize(_, _)
Amf0Size(v) ==
    CASE v.kind = "Number" -> NumberSize(v.num)
      [] v.kind = "String" -> 1 + 2 + StrLen(v.str)
      [] v.kind = "Object" -> 1 + PairsSize(v.entries, TRUE) + 3
      [] v.kind = "EcmaArray" -> 1 + 4 + PairsSize(v.entries, TRUE) + 3
      [] v.kind = "Array" -> 1 + 4 + PairsSize(v.entries, FALSE)
      [] OTHER -> 1
PairsSize(entries, keyed) ==
    IF entries = <<>> THEN 0
    ELSE (IF keyed THEN 2 + StrLen(Head(entries).key) ELSE 0)
         + Amf0Size(Head(entries).value)
         + PairsSize(Tail(entries), keyed)

\* Value::try_into_pairs succeeds for Object and EcmaArray only.
IsPairs(v) == v.kind \in {"Object", "EcmaArray"}

----------------------------------------------------------------------------
(* Keyframes (src/keyframes.rs)                                            *)

NewKeyframes == [filepositions |-> <<>>, times |-> <<>>, offset |-> 0]

Keyframes_add(kf, off, time) ==
    [kf EXCEPT !.filepositions = Append(@, off), !.times = Append(@, time)]

into_amf0(kf) ==
    Pair("keyframes",
         AmfObject(<<
           Pair("filepositions",
                AmfArray([i \in 1..Len(kf.filepositions) |->
                            AmfNumber(F64(kf.filepositions[i] + kf.offset, 1))])),
           Pair("times",
                AmfArray([i \in 1..Len(kf.times) |-> AmfNumber(kf.times[i])]))
         >>))

----------------------------------------------------------------------------
(* generate_patch and generate_keyframes (src/main.rs)                     *)

FlvHeaderLen == 13      \* let mut offset: u64 = 13; // flv header
PrevTagSizeLen == 4     \* offset += tag_size + 4

MaxTags == 4            \* most tags in a scanned file

has_keyframes_never(v) == FALSE

has_keyframes(v) ==
    IsPairs(v) /\ \E i \in 1..Len(v.entries) : v.entries[i].key = "keyframes"

insert_keyframes(md, kf) ==
    IF IsPairs(md) THEN AmfObject(Append(md.entries, into_amf0(kf))) ELSE md

\* make_patched: the script tag (11-byte header, "onMetaData", the metadata)
\* followed by its 4-byte previous-tag-size; len is the length of the bytes.
make_patched(md) ==
    [first |-> AmfString("onMetaData"),
     second |-> md,
     len |-> 11 + Amf0Size(AmfString("onMetaData")) + Amf0Size(md) + 4]

\* Metadata values of the scanned files.
Metas ==
    { AmfObject(<<Pair("duration", AmfNumber(F64(2, 1)))>>),
      AmfEcmaArray(<<Pair("duration", AmfNumber(F64(2, 1)))>>),
      AmfObject(<<Pair("duration", AmfNumber(F64(2, 1))),
                  Pair("keyframes", AmfObject(<<>>))>>),
      AmfNumber(F64(2, 1)) }

NoAmf == AmfString("")

\* Tags as the decoder delivers them; timestamp in milliseconds.
AudioTag(ts) ==
    [type |-> "audio", data_size |-> 3, timestamp |-> ts, frame_type |-> 0,
     first |-> NoAmf, second |-> NoAmf]
VideoTag(ft, ts) ==
    [type |-> "video", data_size |-> 5, timestamp |-> ts, frame_type |-> ft,
     first |-> NoAmf, second |-> NoAmf]
ScriptTag(first, second, ts) ==
    [type |-> "script", data_size |-> Amf0Size(first) + Amf0Size(second),
     timestamp |-> ts, frame_type |-> 0, first |-> first, second |-> second]

\* What a tag of a scanned file may be, with the step (milliseconds) from
\* the timestamp of the tag before it: timestamps do not decrease along a
\* well-formed file.
Shapes ==
    {[k |-> "audio", dt |-> 0], [k |-> "inter", dt |-> 0],
     [k |-> "key", dt |-> 0], [k |-> "key", dt |-> 1000],
     [k |-> "cue", dt |-> 0]}
      \cup {[k |-> "meta", dt |-> 0, m |-> m] : m \in Metas}

RECURSIVE TimeAt(_, _)
TimeAt(shapes, i) == IF i = 0 THEN 0 ELSE TimeAt(shapes, i - 1) + shapes[i].dt

TagOf(shape, ts) ==
    CASE shape.k = "audio" -> AudioTag(ts)
      [] shape.k = "inter" -> VideoTag(2, ts)
      [] shape.k = "key" -> VideoTag(1, ts)
      [] shape.k = "cue" ->
           ScriptTag(AmfString("onCuePoint"), AmfNumber(F64(2, 1)), ts)
      [] shape.k = "meta" -> ScriptTag(AmfString("onMetaData"), shape.m, ts)

\* The files of n tags.
Files(n) ==
    {[tags |-> [i \in 1..n |-> TagOf(s[i], TimeAt(s, i))]] :
       s \in [1..n -> Shapes]}

\* Tag::tag_size: the tag header and its payload
tag_size(tag) == 11 + tag.data_size

\* Byte position of the i-th tag header (1-based) in the file: the 9-byte
\* header, the first previous-tag-size, then tag and previous-tag-size each.
RECURSIVE TagPos(_, _)
TagPos(file, i) ==
    IF i = 1 THEN 9 + 4
    ELSE TagPos(file, i - 1) + tag_size(file.tags[i - 1]) + 4

\* Length of a file in bytes: its last previous-tag-size included.
FileLength(file) == TagPos(file, Len(file.tags) + 1)

ReadBufLen == 4096      \* ReadBuf::new(vec![0; 4096])

ReaderStreamBuf == 2048 \* buf.reserve(2048)

\* An audio tag whose payload is as long as the read buffer, and one that,
\* first in the file, ends four bytes before the end of the first buffer.
PadTag(ts) == [AudioTag(ts) EXCEPT !.data_size = ReadBufLen]
FitTag(ts) ==
    [AudioTag(ts) EXCEPT
       !.data_size = ReadBufLen - FlvHeaderLen - 11 - PrevTagSizeLen]

BigShapes == {[k |-> "pad", dt |-> 0], [k |-> "fit", dt |-> 0]}

ScanTagOf(shape, ts) ==
    CASE shape.k = "pad" -> PadTag(ts)
      [] shape.k = "fit" -> FitTag(ts)
      [] OTHER -> TagOf(shape, ts)

\* The files of n tags given to generate_patch of main.rs: some are longer
\* than the read buffer, and some end early, `short` bytes of the last
\* previous-tag-size missing (all four: the file ends with its last tag).
ScanFiles(n) ==
    {[tags |-> [i \in 1..n |-> ScanTagOf(s[i], TimeAt(s, i))], short |-> k] :
       s \in [1..n -> Shapes \cup BigShapes], k \in 0..PrevTagSizeLen}

\* Length in bytes of such a file.
ScanFileLength(file) == FileLength(file) - file.short

LongFileKeyframes == 120    \* keyframes of the long file

\* A file whose patch is longer than the bytes reader_stream reserves:
\* onMetaData, LongFileKeyframes keyframes a second apart, and an audio tag
\* that takes the file past the read buffer.
LongFile ==
    [tags |->
       <<ScriptTag(AmfString("onMetaData"),
                   AmfObject(<<Pair("duration", AmfNumber(F64(2, 1)))>>), 0)>>
         \o [i \in 1..LongFileKeyframes |-> VideoTag(1, 1000 * (i - 1))]
         \o <<PadTag(1000 * (LongFileKeyframes - 1))>>,
     short |-> 0]

\* ReadBuf: head and tail are the bounds of the bytes held, pos the cursor
\* of the file read into it, eos whether a read has returned 0.
NewReadBuf == [head |-> 0, tail |-> 0, pos |-> 0, eos |-> FALSE]

\* buf.fill(&mut file): reads until the buffer is full or a read returns 0
\* (end of stream); a buffer that is full is left alone.
ReadBuf_fill(rb, flen) ==
    IF rb.tail = ReadBufLen
    THEN rb
    ELSE LET n == Min(ReadBufLen - rb.tail, flen - rb.pos)
         IN [head |-> rb.head, tail |-> rb.tail + n, pos |-> rb.pos + n,
             eos |-> rb.tail + n < ReadBufLen]

\* The end, in the file, of what FileDecoder decodes up to tag k: the file
\* header the first time, the previous-tag-size and the tag.
ItemEnd(file, k) == TagPos(file, k) + tag_size(file.tags[k])

\* decoder.decode_from_read_buf(&mut buf) with i tags delivered so far: the
\* decoder takes the bytes held up to the end of the next tag; it fails when
\* the stream has ended before that end (UnexpectedEos); the buffer is reset
\* once it is empty. idle: the tag is complete (decoder.is_idle()).
decode_from_read_buf(file, i, rb) ==
    LET avail == rb.tail - rb.head
        decoded == rb.pos - avail
        complete == i < Len(file.tags) /\ decoded + avail >= ItemEnd(file, i + 1)
        size == IF complete THEN ItemEnd(file, i + 1) - decoded ELSE avail
    IN [ok |-> complete \/ ~rb.eos,
        idle |-> complete,
        buf |-> IF rb.head + size = rb.tail
                THEN [rb EXCEPT !.head = 0, !.tail = 0]
                ELSE [rb EXCEPT !.head = @ + size]]

\* The locals of generate_patch, and what it has returned ("Running" until
\* it returns).
NewScan ==
    [rbuf |-> NewReadBuf, idx |-> 0, scan_offset |-> FlvHeaderLen,
     keyframes |-> NewKeyframes, metadata_offset |-> 0, metadata_size |-> 0,
     metadata |-> [kind |-> "None"], pass1_len |-> 0,
     result |-> [kind |-> "Running"]]

\* The advance of the running offset after a tag: data + pre tag size
AdvanceStuck(off, tag) == off

Advance(off, tag) == off + tag_size(tag) + PrevTagSizeLen

\* The body of `if decoder.is_idle()`: the tag is taken from the decoder.
finish_decoding(st, tag) ==
    CASE tag.type = "audio" ->
           [st EXCEPT !.idx = @ + 1, !.scan_offset = Advance(@, tag)]
      [] tag.type = "video" ->
           [st EXCEPT !.idx = @ + 1,
                      !.keyframes =
                          IF tag.frame_type = 1
                          THEN Keyframes_add(@, st.scan_offset,
                                             F64(tag.timestamp, 1000))
                          ELSE @,
                      !.scan_offset = Advance(@, tag)]
      [] tag.type = "script" ->
           IF ~(tag.first.kind = "String" /\ tag.first.str = "onMetaData")
           THEN [st EXCEPT !.idx = @ + 1, !.result = [kind |-> "Err"]]
           ELSE IF has_keyframes(tag.second)
           THEN [st EXCEPT !.idx = @ + 1,
                           !.metadata_offset = st.scan_offset,
                           !.metadata_size = tag_size(tag) + 4,
                           !.result = [kind |-> "None"]]
           ELSE [st EXCEPT !.idx = @ + 1,
                           !.metadata_offset = st.scan_offset,
                           !.metadata_size = tag_size(tag) + 4,
                           !.metadata = [kind |-> "Some", value |-> tag.second],
                           !.scan_offset = Advance(@, tag)]

\* One iteration of `while !buf.stream_state().is_eos()`: fill, decode, and
\* the tag handled when the decoder has one. flen is the number of bytes
\* `file` yields before a read returns 0.
loop_iteration(file, flen, st) ==
    LET d == decode_from_read_buf(file, st.idx, ReadBuf_fill(st.rbuf, flen))
        read == [st EXCEPT !.rbuf = d.buf]
    IN IF ~d.ok THEN [read EXCEPT !.result = [kind |-> "Err"]]
       ELSE IF ~d.idle THEN read
       ELSE finish_decoding(read, file.tags[st.idx + 1])

\* After the loop: metadata.map(|m| ...), the two passes of make_patched.
after_loop(st) ==
    IF st.metadata.kind = "None"
    THEN [st EXCEPT !.result = [kind |-> "None"]]
    ELSE LET m == st.metadata.value
             patched_len1 ==
                 make_patched(insert_keyframes(m, st.keyframes)).len
             kf == [st.keyframes EXCEPT
                      !.offset = patched_len1 - st.metadata_size]
         IN [st EXCEPT !.pass1_len = patched_len1,
                       !.keyframes = kf,
                       !.result =
                           [kind |-> "Some",
                            patch |-> [origin_pos |-> st.metadata_offset,
                                       origin_size |-> st.metadata_size,
                                       patched |->
                                           make_patched(
                                               insert_keyframes(m, kf))]]]

\* generate_patch from a state of its loop to its return.
RECURSIVE run_scan(_, _, _)
run_scan(file, flen, st) ==
    IF st.result.kind # "Running" THEN st
    ELSE IF st.rbuf.eos THEN after_loop(st)
    ELSE run_scan(file, flen, loop_iteration(file, flen, st))

\* What generate_patch returns for a file.
generate_patch(file) == run_scan(file, FileLength(file), NewScan).result

ScanState ==
    [rbuf |-> rbuf, idx |-> idx, scan_offset |-> scan_offset,
     keyframes |-> keyframes, metadata_offset |-> metadata_offset,
     metadata_size |-> metadata_size, metadata |-> metadata,
     pass1_len |-> pass1_len, result |-> result]

SetScanState(st) ==
    /\ rbuf' = st.rbuf
    /\ idx' = st.idx
    /\ scan_offset' = st.scan_offset
    /\ keyframes' = st.keyframes
    /\ metadata_offset' = st.metadata_offset
    /\ metadata_size' = st.metadata_size
    /\ metadata' = st.metadata
    /\ pass1_len' = st.pass1_len
    /\ result' = st.result

StartScan(file, r, src) ==
    /\ flv = file
    /\ rbuf = NewScan.rbuf
    /\ idx = NewScan.idx
    /\ scan_offset = NewScan.scan_offset
    /\ keyframes = NewScan.keyframes
    /\ metadata_offset = NewScan.metadata_offset
    /\ metadata_size = NewScan.metadata_size
    /\ metadata = NewScan.metadata
    /\ pass1_len = NewScan.pass1_len
    /\ result = NewScan.result
    /\ sidecar = "pending"
    /\ round = r
    /\ source = src
    /\ fbytes = <<>>
    /\ fpos = 0

IdleReader == NewReader(<<>>, [origin_pos |-> 0, origin_size |-> 0, patched |-> <<>>])

InitScan ==
    /\ IdleReader
    /\ IdleDecoder
    /\ IdlePoll
    /\ IdleStream
    /\ IdleServe
    /\ \/ \E n \in 0..MaxTags :
              \E file \in ScanFiles(n) : StartScan(file, 1, [kind |-> "None"])
       \/ StartScan(LongFile, 1, [kind |-> "None"])

\* The bytes a client receives when it reads the patched view from offset 0
\* through reader_stream over reader.take(reader.len()), len() being
\* origin_length + patched.len() - origin_size: the bytes before origin_pos,
\* then the patch in one read of at most the ReaderStreamBuf bytes reserved
\* and of at most what take has left. When take is exhausted there the body
\* ends; else the next read panics, so nothing of the patch beyond them and
\* nothing after the patch is delivered.
PatchedViewLength(file, pt) ==
    Min(pt.origin_pos + Min(pt.patched.len, ReaderStreamBuf),
        ScanFileLength(file) + pt.patched.len - pt.origin_size)

\* That view as a file: the tags before the patched one, then the patched
\* tag and its previous-tag-size, `short` the bytes of these the view ends
\* before: those the source is short of when the patched tag is its last,
\* those beyond the one read of the patch.
PatchedViewFile(file, pt) ==
    LET m == CHOOSE i \in 1..Len(file.tags) : TagPos(file, i) = pt.origin_pos
        tags == [i \in 1..m |->
                    IF i = m
                    THEN [type |-> "script",
                          data_size |-> pt.patched.len - 11 - 4,
                          timestamp |-> 0,
                          frame_type |-> 0,
                          first |-> pt.patched.first,
                          second |-> pt.patched.second]
                    ELSE file.tags[i]]
    IN [tags |-> tags,
        short |-> FileLength([tags |-> tags]) - PatchedViewLength(file, pt)]

\* The bytes the file being scanned yields: those of the file, or those the
\* patched view delivers.
ScanLength ==
    IF round = 2
    THEN PatchedViewLength(source.flv, source.patch)
    ELSE ScanFileLength(flv)

\* One iteration of the scan loop.
ScanTag ==
    /\ result.kind = "Running"
    /\ ~rbuf.eos
    /\ SetScanState(loop_iteration(flv, ScanLength, ScanState))
    /\ UNCHANGED <<flv, sidecar, round, source>>
    /\ UNCHANGED <<rvars, fvars, dvars, pvars, tvars, hvars>>

\* The loop has ended with the stream: the value generate_patch returns.
ScanFinish ==
    /\ result.kind = "Running"
    /\ rbuf.eos
    /\ SetScanState(after_loop(ScanState))
    /\ UNCHANGED <<flv, sidecar, round, source>>
    /\ UNCHANGED <<rvars, fvars, dvars, pvars, tvars, hvars>>

\* generate_keyframes after generate_patch has returned: nothing is written
\* for None or an error; for Some(patch) File::create leaves the sidecar
\* on disk, empty.
generate_keyframes ==
    /\ result.kind \in {"None", "Some", "Err"}
    /\ sidecar = "pending"
    /\ round = 1
    /\ sidecar' = IF result.kind = "Some" THEN "created" ELSE "none"
    /\ patch_file' = IF result.kind = "Some"
                     THEN [kind |-> "Corrupt"]
                     ELSE patch_file
    /\ UNCHANGED <<flv, rbuf, idx, scan_offset, keyframes, metadata_offset,
                   metadata_size, metadata, pass1_len, result, round, source>>
    /\ UNCHANGED <<requests, streaming, write_queue, source_present, scans,
                   served>>
    /\ UNCHANGED <<rvars, fvars, dvars, pvars, tvars>>

\* patch_file.write_all(&patch).await of generate_keyframes: the bytes are
\* copied to the buffer of the tokio File and their write is handed to the
\* blocking pool; when the await returns the sidecar on disk is as
\* File::create left it.
write_all ==
    /\ sidecar = "created"
    /\ sidecar' = "queued"
    /\ UNCHANGED <<flv, rbuf, idx, scan_offset, keyframes, metadata_offset,
                   metadata_size, metadata, pass1_len, result, round, source>>
    /\ UNCHANGED <<rvars, fvars, dvars, pvars, tvars, hvars>>

\* The blocking pool performs the write that write_all queued: the sidecar
\* holds the serialized patch.
write_all_lands ==
    /\ sidecar = "queued"
    /\ sidecar' = "written"
    /\ patch_file' = [kind |-> "Some", patch |-> result.patch]
    /\ UNCHANGED <<flv, rbuf, idx, scan_offset, keyframes, metadata_offset,
                   metadata_size, metadata, pass1_len, result, round, source>>
    /\ UNCHANGED <<requests, streaming, write_queue, source_present, scans,
                   served>>
    /\ UNCHANGED <<rvars, fvars, dvars, pvars, tvars>>

\* generate_patch run again, on the patched view of the file just scanned,
\* as a client receives it once the sidecar is written.
ScanPatchedView ==
    /\ round = 1
    /\ result.kind = "Some"
    /\ sidecar = "written"
    /\ flv' = PatchedViewFile(flv, result.patch)
    /\ SetScanState(NewScan)
    /\ sidecar' = sidecar
    /\ round' = 2
    /\ source' = [kind |-> "Some", flv |-> flv, patch |-> result.patch,
                  keyframes |-> keyframes]
    /\ UNCHANGED <<rvars, fvars, dvars, pvars, tvars, hvars>>

NextScan ==
    \/ ScanTag
    \/ ScanFinish
    \/ generate_keyframes
    \/ write_all
    \/ write_all_lands
    \/ ScanPatchedView

SpecScan == InitScan /\ [][NextScan]_vars

----------------------------------------------------------------------------
(* The FLV file as bytes, and generate_patch of src/flv.rs over them       *)

U24Bytes(n) == <<n \div 65536, (n \div 256) % 256, n % 256>>
U32Bytes(n) == <<n \div 16777216, (n \div 65536) % 256, (n \div 256) % 256, n % 256>>

\* Buf::get_u32: four bytes, big-endian
U32BE(b) == ((b[1] * 256 + b[2]) * 256 + b[3]) * 256 + b[4]

\* The payload of a tag. A video payload starts with the frame type in the
\* high nibble and the codec id (7, AVC) in the low one, then the AVC packet
\* type and composition time; a script payload starts with the AMF0 string
\* marker. The scan of flv.rs interprets none of the remaining bytes.
PayloadBytes(tag) ==
    [i \in 1..tag.data_size |->
        CASE tag.type = "video" /\ i = 1 -> tag.frame_type * 16 + 7
          [] tag.type = "video" /\ i = 2 -> 1
          [] tag.type = "audio" /\ i = 1 -> 175
          [] tag.type = "audio" /\ i = 2 -> 1
          [] tag.type = "script" /\ i = 1 -> 2
          [] OTHER -> 0]

TagTypeByte(tag) ==
    CASE tag.type = "audio" -> 8
      [] tag.type = "video" -> 9
      [] tag.type = "script" -> 18
      [] OTHER -> tag.type_byte

\* Tag header (type, 24-bit data size, 24-bit timestamp, timestamp-extended,
\* 24-bit stream id), payload, and the previous-tag-size that follows.
TagBytes(tag) ==
    <<TagTypeByte(tag)>> \o U24Bytes(tag.data_size)
        \o U24Bytes(tag.timestamp % 16777216) \o <<tag.timestamp \div 16777216>>
        \o <<0, 0, 0>> \o PayloadBytes(tag) \o U32Bytes(11 + tag.data_size)

RECURSIVE TagsBytes(_)
TagsBytes(tags) ==
    IF tags = <<>> THEN <<>> ELSE TagBytes(Head(tags)) \o TagsBytes(Tail(tags))

\* Nine header bytes: signature, version, flags, data offset.
HeaderBytes(sig, version, flags, data_offset) ==
    sig \o <<version, flags>> \o U32Bytes(data_offset)

StdHeader == HeaderBytes(<<70, 76, 86>>, 1, 5, 9)

\* The header bytes of the files given to generate_patch of flv.rs: the
\* standard header and one whose signature is not "FLV".
FlvHeaders == {StdHeader, HeaderBytes(<<70, 76, 87>>, 1, 5, 9)}

\* "FLV", version 1, flags (audio and video), data offset 9, and the first
\* previous-tag-size.
FlvBytes(file) ==
    <<70, 76, 86, 1, 5>> \o U32Bytes(9) \o U32Bytes(0) \o TagsBytes(file.tags)

\* read_exact of n bytes at pos succeeds when the file holds them.
CanRead(bytes, pos, n) == pos + n <= Len(bytes)

Slice(bytes, pos, n) == SubSeq(bytes, pos + 1, pos + n)

InitFlv ==
    /\ IdleReader
    /\ IdleDecoder
    /\ IdlePoll
    /\ IdleStream
    /\ IdleServe
    /\ \E n \in 0..MaxTags :
         \E file \in Files(n), hdr \in FlvHeaders :
           /\ flv = file
           /\ fbytes = hdr \o SubSeq(FlvBytes(file), 10, Len(FlvBytes(file)))
    /\ fpos = 0
    /\ rbuf = NewReadBuf
    /\ idx = 0
    /\ scan_offset = FlvHeaderLen
    /\ keyframes = NewKeyframes
    /\ metadata_offset = 0
    /\ metadata_size = 0
    /\ metadata = [kind |-> "None"]
    /\ pass1_len = 0
    /\ result = [kind |-> "Header"]
    /\ sidecar = "pending"
    /\ round = 1
    /\ source = [kind |-> "None"]

\* flv.rs read_flv_header: seek to 0 and read nine bytes, unchecked.
flv_read_flv_header ==
    /\ result.kind = "Header"
    /\ IF CanRead(fbytes, 0, 9)
       THEN /\ fpos' = 9
            /\ result' = [kind |-> "Running"]
       ELSE /\ fpos' = Len(fbytes)
            /\ result' = [kind |-> "Err"]
    /\ UNCHANGED <<flv, rbuf, fbytes, idx, scan_offset, keyframes, metadata_offset,
                   metadata_size, metadata, pass1_len, sidecar, round, source>>
    /\ UNCHANGED <<rvars, dvars, pvars, tvars, hvars>>

\* flv.rs read_frame_type over the four bytes read as a u32
flv_read_frame_type(b) ==
    IF b[1] = 0 /\ b[2] = 0 /\ b[3] = 0 /\ b[4] \in 1..5
    THEN [ok |-> TRUE, frame_type |-> b[4]]
    ELSE [ok |-> FALSE, frame_type |-> 0]

\* flv.rs read_flv_tag with the cursor at pos: the outcome, the cursor it
\* leaves, and the fields of the FlvTag. A read_exact that fails leaves the
\* cursor at the end of the file, or where it was when that is further.
flv_read_flv_tag(bytes, pos) ==
    IF ~CanRead(bytes, pos, 4)
    THEN [ok |-> FALSE, pos |-> Max(pos, Len(bytes)), data |-> "none", keyframe |-> FALSE,
          timestamp |-> <<0, 0, 0, 0>>]
    ELSE IF ~CanRead(bytes, pos + 4, 12)
    THEN [ok |-> FALSE, pos |-> Max(pos + 4, Len(bytes)), data |-> "none", keyframe |-> FALSE,
          timestamp |-> <<0, 0, 0, 0>>]
    ELSE LET tag_header == Slice(bytes, pos + 4, 12)
             tag_type == tag_header[1]
             data_size == U32BE(<<0, tag_header[2], tag_header[3], tag_header[4]>>)
             timestamp == SubSeq(tag_header, 5, 8)
             at == pos + 16
         IN CASE tag_type = 8 ->
                   [ok |-> TRUE, pos |-> at + data_size, data |-> "Audio",
                    keyframe |-> FALSE, timestamp |-> timestamp]
              [] tag_type = 9 ->
                   IF ~CanRead(bytes, at, 4)
                   THEN [ok |-> FALSE, pos |-> Max(at, Len(bytes)),
                         data |-> "none",
                         keyframe |-> FALSE, timestamp |-> timestamp]
                   ELSE LET ft == flv_read_frame_type(Slice(bytes, at, 4))
                        IN [ok |-> ft.ok /\ at + data_size >= 0,
                            pos |-> at + 4 + (data_size - 4),
                            data |-> "Video",
                            keyframe |-> ft.ok /\ ft.frame_type = 1,
                            timestamp |-> timestamp]
              [] tag_type = 18 ->
                   [ok |-> TRUE, pos |-> at + data_size, data |-> "Script",
                    keyframe |-> FALSE, timestamp |-> timestamp]
              [] OTHER ->
                   [ok |-> FALSE, pos |-> at, data |-> "none",
                    keyframe |-> FALSE, timestamp |-> timestamp]

\* One iteration of the loop of flv.rs generate_patch. The loop has no exit
\* but the error of read_flv_tag, and it does not advance offset.
flv_generate_patch_loop ==
    /\ result.kind = "Running"
    /\ LET r == flv_read_flv_tag(fbytes, fpos)
       IN /\ fpos' = r.pos
          /\ idx' = idx + 1
          /\ IF ~r.ok
             THEN /\ result' = [kind |-> "Err"]
                  /\ UNCHANGED keyframes
             ELSE /\ keyframes' =
                       IF r.keyframe
                       THEN Keyframes_add(keyframes, scan_offset,
                                          F64(U32BE(r.timestamp), 1000))
                       ELSE keyframes
                  /\ UNCHANGED result
    /\ UNCHANGED <<flv, rbuf, fbytes, scan_offset, metadata_offset, metadata_size,
                   metadata, pass1_len, sidecar, round, source>>
    /\ UNCHANGED <<rvars, dvars, pvars, tvars, hvars>>

NextFlv ==
    \/ flv_read_flv_header
    \/ flv_generate_patch_loop
    \/ generate_keyframes

SpecFlv == InitFlv /\ [][NextFlv]_vars

----------------------------------------------------------------------------
(* read_flv of src/flv_reader.rs over the bytes of an FLV                  *)

MaxReaderTags == 2      \* most tags in a file given to read_flv

\* A tag whose type byte is none of 8, 9, 18.
OtherTag(type_byte, ts) ==
    [type |-> "other", type_byte |-> type_byte, data_size |-> 3,
     timestamp |-> ts, frame_type |-> 0, first |-> NoAmf, second |-> NoAmf]

\* The tags of the files given to read_flv; frame type 6 is not a
\* VideoFrameType, and the timestamp 2^24 + 5 takes the extended byte.
ReaderTags ==
    { AudioTag(0), AudioTag(16777221), VideoTag(1, 0), VideoTag(2, 40),
      VideoTag(6, 0),
      ScriptTag(AmfString("onMetaData"), AmfNumber(F64(2, 1)), 0),
      OtherTag(10, 0) }

ReaderTagSeqs == UNION {[1..n -> ReaderTags] : n \in 0..MaxReaderTags}

\* The headers given to read_flv: every combination of the audio and video
\* flags, a reserved bit set, a data offset beyond the header, a wrong
\* signature and a wrong version.
HeaderInputs ==
    {HeaderBytes(<<70, 76, 86>>, 1, f, 9) : f \in {0, 1, 4, 5, 7}}
      \cup {HeaderBytes(<<70, 76, 86>>, 1, 5, 10),
            HeaderBytes(<<70, 76, 87>>, 1, 5, 9),
            HeaderBytes(<<70, 76, 86>>, 2, 5, 9)}

\* A file: the header, padding up to its data offset, the first
\* previous-tag-size, and the tags each with its previous-tag-size.
ReaderFileBytes(hdr, tags) ==
    hdr \o [i \in 1..(U32BE(SubSeq(hdr, 6, 9)) - 9) |-> 0] \o U32Bytes(0)
        \o TagsBytes(tags)

\* FlvHeader::from_bytes (deku): magic "FLV\x01", then the flags byte taken
\* most significant bit first (5 bits reserved, has_audio, 1 bit reserved,
\* has_video), then data_offset big-endian.
FlvHeader_from_bytes(b) ==
    IF SubSeq(b, 1, 4) = <<70, 76, 86, 1>>
    THEN [kind |-> "Some",
          _reserved1 |-> b[5] \div 8,
          has_audio |-> (b[5] \div 4) % 2 = 1,
          _reserved2 |-> (b[5] \div 2) % 2,
          has_video |-> b[5] % 2 = 1,
          data_offset |-> U32BE(SubSeq(b, 6, 9))]
    ELSE [kind |-> "Err"]

\* flv_reader.rs read_frame_type
read_frame_type(frame_type) == frame_type \in 1..5

\* FlvTag::from_bytes (deku) over the 11 bytes of a tag header
FlvTag_from_bytes(h) ==
    [tag_type |-> h[1],
     data_size |-> U32BE(<<0, h[2], h[3], h[4]>>),
     timestamp |-> U32BE(SubSeq(h, 5, 8)),
     stream_id |-> U32BE(<<0, h[9], h[10], h[11]>>)]

\* The arm of read_flv_tag for a tag type other than 0x8, 0x9, 0x12:
\* Err(format_err("unknown tag type")), the cursor left after the header.
unknown_tag_type_skipped(tag, at) ==
    [kind |-> "Some", pos |-> at + tag.data_size, tag |-> tag,
     data |-> "Other", frame_type |-> 0]

unknown_tag_type(tag, at) == [kind |-> "Err", pos |-> at]

\* flv_reader.rs read_flv_tag with the cursor at pos: Ok(Some(tag)),
\* Ok(None) or Err, and the cursor it leaves. A seek may pass the end of
\* the file; read_exact may not.
read_flv_tag(bytes, pos) ==
    IF ~CanRead(bytes, pos, 15)
    THEN [kind |-> "None", pos |-> Max(pos, Len(bytes))]
    ELSE LET tag == FlvTag_from_bytes(Slice(bytes, pos + 4, 11))
             at == pos + 15
         IN CASE tag.tag_type = 8 ->
                   [kind |-> "Some", pos |-> at + tag.data_size,
                    tag |-> tag, data |-> "Audio", frame_type |-> 0]
              [] tag.tag_type = 9 ->
                   IF ~CanRead(bytes, at, 1)
                   THEN [kind |-> "Err", pos |-> Max(at, Len(bytes))]
                   ELSE LET frame_type == bytes[at + 1] \div 16
                        IN IF at + tag.data_size < 0
                           THEN [kind |-> "Err", pos |-> at + 1]
                           ELSE IF ~read_frame_type(frame_type)
                           THEN [kind |-> "Err", pos |-> at + tag.data_size]
                           ELSE [kind |-> "Some", pos |-> at + tag.data_size,
                                 tag |-> tag, data |-> "Video",
                                 frame_type |-> frame_type]
              [] tag.tag_type = 18 ->
                   IF ~CanRead(bytes, at, tag.data_size)
                   THEN [kind |-> "Err", pos |-> Max(at, Len(bytes))]
                   ELSE [kind |-> "Some", pos |-> at + tag.data_size,
                         tag |-> tag, data |-> "Script", frame_type |-> 0]
              [] OTHER -> unknown_tag_type(tag, at)

\* The files given to read_flv: each header with each tag sequence, whole,
\* and under the standard header every prefix of the file as well.
InitReader ==
    /\ IdleReader
    /\ IdleServe
    /\ IdleDecoder
    /\ IdlePoll
    /\ IdleStream
    /\ \E hdr \in HeaderInputs, tags \in ReaderTagSeqs :
         LET full == ReaderFileBytes(hdr, tags)
         IN /\ flv = [tags |-> tags]
            /\ \E cut \in 0..Len(full) :
                 /\ cut = Len(full) \/ hdr = StdHeader
                 /\ fbytes = SubSeq(full, 1, cut)
    /\ fpos = 0
    /\ rbuf = NewReadBuf
    /\ idx = 0
    /\ scan_offset = 0
    /\ keyframes = NewKeyframes
    /\ metadata_offset = 0
    /\ metadata_size = 0
    /\ metadata = [kind |-> "None"]
    /\ pass1_len = 0
    /\ result = [kind |-> "Header"]
    /\ sidecar = "pending"
    /\ round = 1
    /\ source = [kind |-> "None"]

\* read_flv up to its return: read_flv_header (seek to 0, read nine bytes,
\* decode them); the stream is returned unpolled.
read_flv_header ==
    /\ result.kind = "Header"
    /\ IF ~CanRead(fbytes, 0, 9)
       THEN /\ fpos' = Len(fbytes)
            /\ result' = [kind |-> "Err"]
            /\ UNCHANGED header
       ELSE LET h == FlvHeader_from_bytes(Slice(fbytes, 0, 9))
            IN /\ fpos' = 9
               /\ IF h.kind = "Err"
                  THEN /\ result' = [kind |-> "Err"]
                       /\ UNCHANGED header
                  ELSE /\ result' = [kind |-> "Stream"]
                       /\ header' = h
    /\ UNCHANGED <<flv, rbuf, fbytes, idx, scan_offset, keyframes, metadata_offset,
                   metadata_size, metadata, pass1_len, sidecar, round, source,
                   lastTag>>
    /\ UNCHANGED <<rvars, hvars, pvars, tvars>>

\* One poll of the stream of read_flv: the first poll seeks to data_offset;
\* each poll runs read_flv_tag and yields the tag, ends, or fails.
read_flv ==
    /\ result.kind \in {"Stream", "Running"}
    /\ LET from == IF result.kind = "Stream" THEN header.data_offset ELSE fpos
           r == read_flv_tag(fbytes, from)
       IN /\ fpos' = r.pos
          /\ CASE r.kind = "Some" ->
                    /\ idx' = idx + 1
                    /\ lastTag' = [kind |-> "Some", at |-> from + 4,
                                   tag_type |-> r.tag.tag_type,
                                   data_size |-> r.tag.data_size,
                                   timestamp |-> r.tag.timestamp,
                                   stream_id |-> r.tag.stream_id,
                                   data |-> r.data,
                                   frame_type |-> r.frame_type]
                    /\ result' = [kind |-> "Running"]
               [] r.kind = "None" ->
                    /\ result' = [kind |-> "End"]
                    /\ UNCHANGED <<idx, lastTag>>
               [] r.kind = "Err" ->
                    /\ result' = [kind |-> "Err"]
                    /\ UNCHANGED <<idx, lastTag>>
    /\ UNCHANGED <<flv, rbuf, fbytes, scan_offset, keyframes, metadata_offset,
                   metadata_size, metadata, pass1_len, sidecar, round, source,
                   header>>
    /\ UNCHANGED <<rvars, hvars, pvars, tvars>>

NextReader ==
    \/ read_flv_header
    \/ read_flv

SpecReader == InitReader /\ [][NextReader]_vars

----------------------------------------------------------------------------
(* handle_get and reply_with_patch (src/main.rs): requests for one file    *)

MaxRangeEnd == 1        \* largest position named in a Range header

\* The source files requested: no tags; a keyframe and no metadata;
\* onMetaData followed by two keyframes; onMetaData that has "keyframes"
\* already; a script tag that is not onMetaData.
ServeFiles ==
    { [tags |-> <<>>],
      [tags |-> <<VideoTag(1, 0)>>],
      [tags |-> <<ScriptTag(AmfString("onMetaData"),
                            AmfObject(<<Pair("duration", AmfNumber(F64(2, 1)))>>), 0),
                  VideoTag(1, 0), VideoTag(1, 1000)>>],
      [tags |-> <<ScriptTag(AmfString("onMetaData"),
                            AmfObject(<<Pair("duration", AmfNumber(F64(2, 1))),
                                        Pair("keyframes", AmfObject(<<>>))>>), 0),
                  VideoTag(1, 0)>>],
      [tags |-> <<ScriptTag(AmfString("onCuePoint"), AmfNumber(F64(2, 1)), 0)>>] }

\* The Range header of a request: none, bytes=a-b, or bytes=a-
RangeHeaders ==
    {[kind |-> "none", a |-> 0, b |-> 0]}
      \cup {[kind |-> "bytes", a |-> a, b |-> b] :
               a \in 0..MaxRangeEnd, b \in 0..MaxRangeEnd}
      \cup {[kind |-> "from", a |-> a, b |-> 0] : a \in 0..MaxRangeEnd}

\* reply_with_patch: the (start, end) taken from the Range header. The
\* header crate yields (Included(a), Included(b)) for bytes=a-b and
\* (Included(a), Unbounded) for bytes=a-.
range_bounds(range, max_len) ==
    LET start == IF range.kind = "none" THEN 0 ELSE range.a
        end == IF range.kind = "bytes" THEN range.b ELSE max_len
    IN IF range.kind = "none" \/ (start < end /\ end <= max_len)
       THEN [ok |-> TRUE, start |-> start, end |-> end]
       ELSE [ok |-> FALSE, start |-> start, end |-> end]

\* File::open(&patch_path) succeeds when the sidecar exists.
sidecar_opens(pf) == pf.kind # "Absent"

InitServe ==
    /\ IdleReader
    /\ IdleDecoder
    /\ IdlePoll
    /\ IdleStream
    /\ patch_file = [kind |-> "Absent"]
    /\ requests = [r \in 1..MaxRequests |-> NoRequest]
    /\ streaming = [NoBody EXCEPT !.req = MaxRequests]
    /\ write_queue = {}
    /\ source_present = TRUE
    /\ scans = 0
    /\ served = 0
    /\ flv \in ServeFiles
    /\ rbuf = NewReadBuf
    /\ idx = 0
    /\ scan_offset = 0
    /\ keyframes = NewKeyframes
    /\ metadata_offset = 0
    /\ metadata_size = 0
    /\ metadata = [kind |-> "None"]
    /\ pass1_len = 0
    /\ result = [kind |-> "Idle"]
    /\ sidecar = "pending"
    /\ round = 1
    /\ source = [kind |-> "None"]
    /\ fbytes = <<>>
    /\ fpos = 0

\* The requests that have arrived and not ended.
InFlight == {r \in 1..MaxRequests : requests[r].pc \notin {"none", "done"}}

\* map_not_fount(e): the error is printed and the request rejected.
Rejected(r, e) ==
    [requests EXCEPT ![r].pc = "done",
                     ![r].response = [status |-> "not_found", error |-> e]]

\* handle_get up to its first await: File::open(&patch_path). warp runs one
\* handle_get per request; they interleave at their awaits, and each action
\* below is the code from one await to the next.
handle_get(r) ==
    /\ requests[r].pc = "none"
    /\ \A q \in 1..(r - 1) : requests[q].pc # "none"
    /\ requests' = [requests EXCEPT
                      ![r].opened = IF sidecar_opens(patch_file)
                                  THEN "File" ELSE "Absent",
                      ![r].after_served = served >= 1,
                      ![r].pc = IF sidecar_opens(patch_file)
                                THEN "reply" ELSE "generate"]
    /\ UNCHANGED <<patch_file, streaming, write_queue, source_present, scans,
                   served>>
    /\ UNCHANGED <<rvars, svars, fvars, dvars, pvars, tvars>>

\* generate_keyframes: File::open(path.clone()).await; an error is a
\* rejection, else generate_patch is entered with the open file.
generate_keyframes_open(r) ==
    /\ requests[r].pc = "generate"
    /\ IF ~source_present
       THEN /\ requests' = Rejected(r, "io")
            /\ UNCHANGED scans
       ELSE /\ requests' = [requests EXCEPT ![r].pc = "into_std"]
            /\ scans' = scans + 1
    /\ UNCHANGED <<patch_file, streaming, write_queue, source_present, served>>
    /\ UNCHANGED <<rvars, svars, fvars, dvars, pvars, tvars>>

\* generate_patch: file.into_std().await
generate_patch_into_std(r) ==
    /\ requests[r].pc = "into_std"
    /\ requests' = [requests EXCEPT ![r].pc = "scan"]
    /\ UNCHANGED <<patch_file, streaming, write_queue, source_present, scans,
                   served>>
    /\ UNCHANGED <<rvars, svars, fvars, dvars, pvars, tvars>>

\* generate_patch: the closure given to spawn_blocking has scanned the open
\* file and its result is returned. An error is a rejection.
generate_keyframes_scan(r) ==
    /\ requests[r].pc = "scan"
    /\ LET res == generate_patch(flv)
       IN requests' =
            IF res.kind = "Err"
            THEN [Rejected(r, "InvalidData") EXCEPT ![r].result = res]
            ELSE [requests EXCEPT
                    ![r].result = res,
                    ![r].pc = IF res.kind = "Some" THEN "create" ELSE "reply"]
    /\ UNCHANGED <<patch_file, streaming, write_queue, source_present, scans,
                   served>>
    /\ UNCHANGED <<rvars, svars, fvars, dvars, pvars, tvars>>

\* File::create(patch_path).await: the sidecar exists and is empty,
\* whatever it held.
generate_keyframes_create(r) ==
    /\ requests[r].pc = "create"
    /\ patch_file' = [kind |-> "Corrupt"]
    /\ requests' = [requests EXCEPT ![r].pc = "write"]
    /\ UNCHANGED <<streaming, write_queue, source_present, scans, served>>
    /\ UNCHANGED <<rvars, svars, fvars, dvars, pvars, tvars>>

\* patch_file.write_all(&patch).await: the bytes are copied to the buffer of
\* the tokio File and their write is handed to the blocking pool; the await
\* returns with the sidecar on disk as it was.
generate_keyframes_write(r) ==
    /\ requests[r].pc = "write"
    /\ write_queue' = write_queue \cup {r}
    /\ requests' = [requests EXCEPT ![r].pc = "reopen"]
    /\ UNCHANGED <<patch_file, streaming, source_present, scans, served>>
    /\ UNCHANGED <<rvars, svars, fvars, dvars, pvars, tvars>>

\* The blocking pool performs the write queued by the write_all of request
\* r, at the start of the file: the sidecar holds the serialized patch.
write_all_queued(r) ==
    /\ r \in write_queue
    /\ write_queue' = write_queue \ {r}
    /\ patch_file' = [kind |-> "Some", patch |-> requests[r].result.patch]
    /\ UNCHANGED <<requests, streaming, source_present, scans, served>>
    /\ UNCHANGED <<rvars, svars, fvars, dvars, pvars, tvars>>

\* File::open(patch_path).await? at the end of generate_keyframes: the
\* handle is returned, an error is a rejection.
generate_keyframes_reopen(r) ==
    /\ requests[r].pc = "reopen"
    /\ requests' = IF sidecar_opens(patch_file)
                   THEN [requests EXCEPT ![r].pc = "reply",
                                         ![r].opened = "File"]
                   ELSE Rejected(r, "io")
    /\ UNCHANGED <<patch_file, streaming, write_queue, source_present, scans,
                   served>>
    /\ UNCHANGED <<rvars, svars, fvars, dvars, pvars, tvars>>

\* The future of the request is dropped while File::create is awaited: the
\* blocking pool still creates the file, nothing is written to it.
generate_keyframes_cancelled(r) ==
    /\ requests[r].pc = "create"
    /\ patch_file' = [kind |-> "Corrupt"]
    /\ requests' = [requests EXCEPT ![r].pc = "done",
                                    ![r].response = [status |-> "cancelled"]]
    /\ UNCHANGED <<streaming, write_queue, source_present, scans, served>>
    /\ UNCHANGED <<rvars, svars, fvars, dvars, pvars, tvars>>

\* The source file is removed from its path.
source_removed ==
    /\ source_present
    /\ InFlight # {}
    /\ source_present' = FALSE
    /\ UNCHANGED <<patch_file, requests, streaming, write_queue, scans, served>>
    /\ UNCHANGED <<rvars, svars, fvars, dvars, pvars, tvars>>

\* reply_with_patch up to the Patch. Without a sidecar the dummy patch is
\* taken. Else one read of patch_file.read_to_end(&mut buf).await through
\* the handle the request opened: the first read fills the few bytes
\* read_to_end has reserved, a later read returns more of what the sidecar
\* holds past the cursor, and a read that returns 0 ends read_to_end; the
\* bytes read are then decoded, and what cannot be decoded (nothing, or a
\* part of the patch) is an error, and a rejection. The sidecar can be
\* truncated and written again between two reads.
reply_with_patch_read(r) ==
    /\ requests[r].pc = "reply"
    /\ IF requests[r].opened = "Absent"
       THEN requests' = [requests EXCEPT ![r].sidecar_read = "Absent",
                                         ![r].patch = DummyPatch,
                                         ![r].pc = "respond"]
       ELSE IF patch_file.kind = "Some" /\ requests[r].got # "all"
       THEN \E g \in {"part", "all"} :
              /\ requests[r].got = "nothing" => g = "part"
              /\ requests' =
                   [requests EXCEPT
                      ![r].got = g,
                      ![r].patch =
                          [origin_pos |-> patch_file.patch.origin_pos,
                           origin_size |-> patch_file.patch.origin_size,
                           patched |->
                               PatchBytes(patch_file.patch.patched.len)]]
       ELSE IF requests[r].got = "all"
       THEN requests' = [requests EXCEPT ![r].sidecar_read = "Some",
                                         ![r].opened = "Absent",
                                         ![r].got = "nothing",
                                         ![r].pc = "respond"]
       ELSE requests' =
              [requests EXCEPT
                 ![r].sidecar_read = "Corrupt",
                 ![r].opened = "Absent",
                 ![r].got = "nothing",
                 ![r].pc = "done",
                 ![r].response = [status |-> "not_found",
                                  error |-> "sidecar"]]
    /\ UNCHANGED <<patch_file, streaming, write_queue, source_present, scans,
                   served>>
    /\ UNCHANGED <<rvars, svars, fvars, dvars, pvars, tvars>>

\* reply_with_patch: File::open(path).await; an error is a rejection.
reply_with_patch_open(r) ==
    /\ requests[r].pc = "respond"
    /\ requests' = IF source_present
                   THEN [requests EXCEPT ![r].pc = "reader"]
                   ELSE Rejected(r, "io")
    /\ UNCHANGED <<patch_file, streaming, write_queue, source_present, scans,
                   served>>
    /\ UNCHANGED <<rvars, svars, fvars, dvars, pvars, tvars>>

\* PatchedReader::new(reader, patch) on a file of flen bytes: the length is
\* taken by a seek to the end, the logical offset is 0.
PatchedReader_new(flen, pt) ==
    /\ original' = OrigFile(flen)
    /\ patch' = pt
    /\ offset' = 0
    /\ origin_length' = flen
    /\ reader_pos' = flen
    /\ fault' = FALSE
    /\ op' = "new"
    /\ lastRead' = [at |-> 0, cap |-> 0, ret |-> 0, data |-> <<>>,
                    from |-> "none"]
    /\ seekFrom' = 0
    /\ acc' = <<>>
    /\ reads' = 0
    /\ backSeeks' = 0

\* reply_with_patch: patch.patch_reader(file).await?. What it returns is
\* used as a PatchedReader (len, seek, take, reader_stream over AsyncRead),
\* the type PatchedReader::new builds; Patch::patch_reader of patch.rs
\* returns a PatchedStream, which has none of these. Each request has its
\* own reader; the reader variables are those of request streaming.req,
\* the last request to arrive: it can find the sidecar in any state, with
\* the earlier requests at any point of their handle_get.
reply_with_patch_reader(r) ==
    /\ requests[r].pc = "reader"
    /\ requests' = [requests EXCEPT ![r].pc = "seek"]
    /\ IF streaming.req = r
       THEN PatchedReader_new(FileLength(flv), requests[r].patch)
       ELSE UNCHANGED rvars
    /\ UNCHANGED <<patch_file, streaming, write_queue, source_present, scans,
                   served>>
    /\ UNCHANGED <<svars, fvars, dvars, pvars, tvars>>

\* reply_with_patch from reader.len(): the range is taken against the
\* length of the view, the reader sought to its start
\* (reader.seek(SeekFrom::Start(range.0)).await), and the response made
\* with Content-Length and a body limited by take(end - start). A range
\* refused is a rejection.
reply_with_patch(r, range) ==
    /\ requests[r].pc = "seek"
    /\ LET pt == requests[r].patch
           max_len == FileLength(flv) + Len(pt.patched) - pt.origin_size
           bounds == range_bounds(range, max_len)
       IN IF bounds.ok
          THEN /\ requests' = [requests EXCEPT
                                 ![r].pc = "done",
                                 ![r].response = [status |-> "ok"]]
               /\ served' = served + 1
               /\ IF streaming.req = r
                  THEN /\ offset' = bounds.start
                       /\ seekFrom' = bounds.start
                       /\ op' = "seek"
                       /\ UNCHANGED <<original, patch, origin_length,
                                      reader_pos, fault, lastRead, acc, reads,
                                      backSeeks>>
                       /\ streaming' =
                            [req |-> r, range |-> range, status |-> "ok",
                             content_length |-> bounds.end - bounds.start,
                             total |-> max_len]
                  ELSE UNCHANGED <<rvars, streaming>>
          ELSE /\ requests' = Rejected(r, "InvalidData")
               /\ streaming' =
                    IF streaming.req = r
                    THEN [req |-> r, range |-> range, status |-> "not_found",
                          content_length |-> 0, total |-> max_len]
                    ELSE streaming
               /\ UNCHANGED <<rvars, served>>
    /\ UNCHANGED <<patch_file, write_queue, source_present, scans>>
    /\ UNCHANGED <<svars, fvars, dvars, pvars, tvars>>

\* Whether the body of the response has ended: there is none, take has
\* nothing left, or the last read returned 0 (`if n == 0 { return
\* Poll::Ready(None) }`).
BodyEnded ==
    \/ streaming.status # "ok"
    \/ Len(acc) >= streaming.content_length
    \/ op = "read" /\ lastRead.ret = 0

\* One poll of the body of the response to request streaming.req:
\* reader_stream over reader.take(end - start). A poll reads into the 2048
\* bytes reserved, or into what take has left when that is less. The body is
\* polled whatever the other requests are doing.
reader_stream ==
    /\ ~BodyEnded
    /\ poll_read(Min(ReaderStreamBuf,
                     streaming.content_length - Len(acc)))

NextServe ==
    \/ \E r \in 1..MaxRequests : handle_get(r)
    \/ \E r \in 1..MaxRequests : generate_keyframes_open(r)
    \/ \E r \in 1..MaxRequests : generate_patch_into_std(r)
    \/ \E r \in 1..MaxRequests : generate_keyframes_scan(r)
    \/ \E r \in 1..MaxRequests : generate_keyframes_create(r)
    \/ \E r \in 1..MaxRequests : generate_keyframes_write(r)
    \/ \E r \in 1..MaxRequests : write_all_queued(r)
    \/ \E r \in 1..MaxRequests : generate_keyframes_reopen(r)
    \/ \E r \in 1..MaxRequests : generate_keyframes_cancelled(r)
    \/ \E r \in 1..MaxRequests : reply_with_patch_read(r)
    \/ \E r \in 1..MaxRequests : reply_with_patch_open(r)
    \/ \E r \in 1..MaxRequests : reply_with_patch_reader(r)
    \/ \E r \in 1..MaxRequests, range \in RangeHeaders :
          reply_with_patch(r, range)
    \/ source_removed
    \/ reader_stream

SpecServe == InitServe /\ [][NextServe]_vars

----------------------------------------------------------------------------
(* PatchedReader::poll_read poll by poll (src/patch.rs). The back-end      *)
(* reader answers a poll of an operation with Pending or Ready; the model  *)
(* gives each operation it is handed a number of Pending polls in          *)
(* 0..MaxDelay. A Read borrows the reader until it completes, so seeks     *)
(* come between Reads.                                                     *)

MaxDelay == 1
MaxSeeksCounted == 4

NoBackendOp == [op |-> "none", delay |-> 0, target |-> 0, size |-> 0]

\* Where the back-end cursor stands once the operation in flight is over: a
\* seek leaves it at its target, a read moves it past the bytes it took.
CursorAfter(inflight) ==
    CASE inflight.op = "seek" -> {inflight.target}
      [] inflight.op = "read" ->
           {inflight.target + n :
              n \in BackendReadCounts(inflight.target, inflight.size)}
      [] OTHER -> {reader_pos}

\* The poll ends in Pending: nothing of the Read is kept but the operation
\* left in flight in the back-end.
ReadPending(cap, inflight, cursor, seek_given) ==
    /\ backend' = inflight
    /\ polled' = [active |-> TRUE, cap |-> cap,
                  restarted |->
                      polled.active /\ (polled.restarted \/ seek_given)]
    /\ reader_pos' = cursor
    /\ backSeeks' = IF seek_given
                    THEN Min(backSeeks + 1, MaxSeeksCounted)
                    ELSE backSeeks
    /\ UNCHANGED <<offset, lastRead, acc, op, reads, fault>>

\* One poll of a Read from the original file: start_seek, poll_complete and
\* poll_read on the back-end, each behind ready!.
poll_origin(cap, sp, read_size) ==
    IF backend.op # "none" /\ backend.delay > 0
    THEN \* start_seek waits for the operation in flight
         ReadPending(cap, [backend EXCEPT !.delay = @ - 1], reader_pos, FALSE)
    ELSE \E cursor \in CursorAfter(backend), d \in 0..MaxDelay :
           \* start_seek hands the back-end a seek to sp.off
           IF d > 0
           THEN \* poll_complete is Pending
                ReadPending(cap, [op |-> "seek", delay |-> d - 1,
                                  target |-> sp.off, size |-> 0],
                            cursor, TRUE)
           ELSE \E d2 \in 0..MaxDelay :
                  IF d2 > 0
                  THEN \* back-end poll_read is Pending
                       ReadPending(cap, [op |-> "read", delay |-> d2 - 1,
                                         target |-> sp.off,
                                         size |-> read_size],
                                   sp.off, TRUE)
                  ELSE \E n \in BackendReadCounts(sp.off, read_size) :
                         /\ ReadDone(cap, n,
                                     SubSeq(original, sp.off + 1, sp.off + n),
                                     IF n = 0 THEN "none" ELSE "origin")
                         /\ reader_pos' = sp.off + n
                         /\ backSeeks' = Min(backSeeks + 1, MaxSeeksCounted)
                         /\ backend' = NoBackendOp
                         /\ polled' = [active |-> FALSE, cap |-> cap,
                                       restarted |-> polled.active]
                         /\ UNCHANGED fault

\* poll_read called once: the first poll of a Read with a buffer of `cap`
\* bytes, or the next poll of the Read that returned Pending.
poll_read_once(cap) ==
    /\ ~fault
    /\ IF polled.active THEN cap = polled.cap ELSE reads < MaxReads
    /\ LET sp == StartPoint(offset)
           read_size == Min(cap, sp.readable)
       IN IF sp.kind = "Origin"
          THEN /\ poll_origin(cap, sp, read_size)
               /\ UNCHANGED <<original, patch, origin_length, seekFrom>>
               /\ UNCHANGED <<svars, fvars, dvars, tvars, hvars>>
          ELSE poll_read(cap)

\* A seek of the patched reader, between Reads.
seek_between_reads(position) ==
    /\ ~polled.active
    /\ start_seek(position)

NextPoll ==
    \/ \E position \in SeekPositions : seek_between_reads(position)
    \/ \E cap \in 0..MaxBuf : poll_read_once(cap)

\* The caller polls the Read again whenever it is woken.
SpecPoll ==
    /\ Init
    /\ [][NextPoll]_vars
    /\ WF_vars(\E cap \in 0..MaxBuf : poll_read_once(cap))

----------------------------------------------------------------------------
(* PatchedStream (src/patch.rs): the patch spliced into a stream of chunks *)

MaxStream == 3
MaxChunks == 3

OkChunk(bytes) == [kind |-> "Ok", bytes |-> bytes]
ErrChunk == [kind |-> "Err", bytes |-> <<>>]

\* The ways to cut `bytes` into at most k chunks; a chunk may be empty.
RECURSIVE Chunkings(_, _)
Chunkings(bytes, k) ==
    (IF bytes = <<>> THEN {<<>>} ELSE {})
    \cup (IF k = 0
          THEN {}
          ELSE UNION { { <<OkChunk(SubSeq(bytes, 1, i))>> \o rest :
                           rest \in Chunkings(SubSeq(bytes, i + 1, Len(bytes)),
                                              k - 1) } :
                       i \in 0..Len(bytes) })

\* The items of an underlying stream: a chunking, with or without one Err
\* item among the chunks.
StreamItems(bytes) ==
    UNION { {c} \cup { SubSeq(c, 1, j) \o <<ErrChunk>> \o SubSeq(c, j + 1, Len(c)) :
                         j \in 0..Len(c) } :
            c \in Chunkings(bytes, MaxChunks) }

\* Patch::patch_stream: the stream, a clone of the patch, offset 0.
patch_stream(pt, items) ==
    /\ chunks = items
    /\ ps_patch = [kind |-> "Some", patch |-> pt]
    /\ ps_offset = 0
    /\ emitted = <<>>
    /\ ps_state = "open"

InitStream ==
    /\ \E pt \in Patches(MaxStream), m \in 0..MaxStream :
         /\ pt.origin_size <= 1
         /\ NewReader(<<>>, pt)
         /\ \E items \in StreamItems(OrigFile(m)) : patch_stream(pt, items)
    /\ IdleScan
    /\ IdleDecoder
    /\ IdlePoll
    /\ IdleServe

\* chunk.split_off(at) keeps [0, at) and returns [at, len); it panics when
\* at > len. The index is a u64 difference.
SplitOffPanics(bytes, at) == at < 0 \/ at > Len(bytes)

\* PatchedStream::poll_next with the underlying stream ready.
poll_next ==
    /\ ps_state = "open"
    /\ LET i == Len(emitted) + 1
       IN IF i > Len(chunks)
          THEN \* None => return Ready(None)
               /\ ps_state' = "ended"
               /\ UNCHANGED <<ps_patch, ps_offset, emitted>>
          ELSE IF chunks[i].kind = "Err"
          THEN \* Some(Err(e)) => return Ready(Some(Err(e)))
               /\ emitted' = Append(emitted, ErrChunk)
               /\ UNCHANGED <<ps_patch, ps_offset, ps_state>>
          ELSE LET chunk == chunks[i].bytes
                   end == ps_offset + Len(chunk)
               IN IF ps_patch.kind = "Some" /\ end >= ps_patch.patch.origin_pos
                  THEN LET at == ps_patch.patch.origin_pos - ps_offset
                       IN IF SplitOffPanics(chunk, at)
                          THEN /\ ps_state' = "panic"
                               /\ ps_patch' = [kind |-> "None"]
                               /\ UNCHANGED <<ps_offset, emitted>>
                          ELSE /\ ps_patch' = [kind |-> "None"]
                               /\ emitted' =
                                    Append(emitted,
                                           OkChunk(SubSeq(chunk, 1, at)
                                                   \o ps_patch.patch.patched
                                                   \o SubSeq(chunk, at + 1,
                                                             Len(chunk))))
                               /\ UNCHANGED <<ps_offset, ps_state>>
                  ELSE /\ ps_offset' = end
                       /\ emitted' = Append(emitted, OkChunk(chunk))
                       /\ UNCHANGED <<ps_patch, ps_state>>
    /\ UNCHANGED chunks
    /\ UNCHANGED <<rvars, svars, fvars, dvars, pvars, hvars>>

NextStream == poll_next

SpecStream == InitStream /\ [][NextStream]_vars

----------------------------------------------------------------------------
(* Properties of the patched reader, checked under Spec                    *)

\* The logical stream the reader is to present: byte k of the patched view.
ViewByte(k) ==
    IF k < patch.origin_pos
    THEN original[k + 1]
    ELSE IF k < patch.origin_pos + Len(patch.patched)
    THEN patch.patched[k - patch.origin_pos + 1]
    ELSE original[k - Len(patch.patched) + patch.origin_size + 1]

ViewLen == Len(original) + Len(patch.patched) - patch.origin_size

ViewRange(a, b) == [i \in 1..(b - a) |-> ViewByte(a + i - 1)]

\* C1: seeking to any logical position k < len() and reading one byte yields
\* byte k of the patched view (original before the patch, patched inside it,
\* original shifted after it).
C1_ByteExactView ==
    (op = "read" /\ reads = 1 /\ lastRead.cap = 1 /\ lastRead.at < ViewLen)
        => /\ ~fault
           /\ lastRead.ret = 1
           /\ lastRead.data = <<ViewByte(lastRead.at)>>

\* C2: after a seek to a, repeated reads with buffers of at least one byte
\* deliver the bytes a.. of the patched view in order, and no read returns 0
\* (or faults) while the logical offset is short of len().
C2_RangeCorrectness ==
    (op = "read" /\ lastRead.cap >= 1 /\ lastRead.at < ViewLen)
        => /\ ~fault
           /\ lastRead.ret >= 1
           /\ seekFrom + Len(acc) <= ViewLen
           /\ acc = ViewRange(seekFrom, seekFrom + Len(acc))
           /\ offset = seekFrom + Len(acc)

\* C3: in every state len() is the original file's length plus |patched|
\* minus origin_size, the subtraction does not go below zero, and no seek or
\* read changes the value.
C3_LengthIdentity ==
    /\ [](/\ len = Len(original) + Len(patch.patched) - patch.origin_size
          /\ origin_length + patched_len >= patch.origin_size
          /\ len >= 0)
    /\ [][len' = len]_vars

C3_Witness ==
    /\ op = "read" /\ reads >= 2 /\ ~fault
    /\ patch.origin_size > 0 /\ patched_len > 0
    /\ offset > 0 /\ seekFrom > 0

\* C4: one read never returns bytes of two regions, and a read that follows
\* a read ending exactly on a region boundary, with bytes left in the view
\* and a non-empty buffer, returns at least one byte of the next region.
C4_OneRegionPerRead ==
    /\ []((op = "read" /\ lastRead.ret > 0) =>
            LET a == lastRead.at
                b == lastRead.at + lastRead.ret
                p == patch.origin_pos
                q == patch.origin_pos + Len(patch.patched)
            IN \/ b <= p
               \/ p <= a /\ b <= q
               \/ q <= a)
    /\ [][(/\ op = "read" /\ lastRead.ret > 0 /\ ~fault
           /\ offset \in {patch.origin_pos,
                          patch.origin_pos + Len(patch.patched)}
           /\ offset < ViewLen
           /\ op' = "read" /\ reads' = reads + 1 /\ lastRead'.cap >= 1)
          => (/\ ~fault'
              /\ lastRead'.ret >= 1
              /\ lastRead'.data[1] = ViewByte(offset))]_vars

----------------------------------------------------------------------------
(* Properties of the scan and the patch it makes, checked under SpecScan   *)

\* A metadata value that carries a pair keyed "keyframes".
HasKeyframesPair(v) ==
    /\ v.kind \in {"Object", "EcmaArray"}
    /\ \E i \in 1..Len(v.entries) : v.entries[i].key = "keyframes"

IsOnMetaData(tag) ==
    tag.type = "script" /\ tag.first.kind = "String" /\ tag.first.str = "onMetaData"

IsKeyframeTag(tag) == tag.type = "video" /\ tag.frame_type = 1

\* The filepositions a patched metadata value carries.
EmittedFilePositions(md) ==
    IF HasKeyframesPair(md)
    THEN LET e == md.entries[Len(md.entries)]
             fp == e.value.entries[1].value.entries
         IN [i \in 1..Len(fp) |-> fp[i].value.num.n]
    ELSE <<>>

\* C5: when generate_patch returns Some(patch) for a file, generate_patch on
\* the patched view of that file returns None, whatever AMF0 value the
\* original metadata is.
C5_Idempotence ==
    (round = 2 /\ result.kind # "Running") => result.kind = "None"

\* C6: every emitted filepositions[i] is, in the patched view, the position
\* of the header of a video tag with frame type 1, whatever the tag order.
C6_FilePositionsPointAtKeyframes ==
    (round = 1 /\ result.kind = "Some") =>
        LET view == PatchedViewFile(flv, result.patch)
            fps == EmittedFilePositions(result.patch.patched.second)
        IN \A i \in 1..Len(fps) :
             \E j \in 1..Len(view.tags) :
               /\ IsKeyframeTag(view.tags[j])
               /\ TagPos(view, j) = fps[i]

\* C7: the patched tag of the second pass is as long as the candidate of the
\* first pass, so |patched| - origin_size is the offset added to the file
\* positions.
C7_PassLengthsAgree ==
    result.kind = "Some" =>
        /\ result.patch.patched.len = pass1_len
        /\ result.patch.patched.len - result.patch.origin_size = keyframes.offset

C7_Witness ==
    /\ round = 1 /\ result.kind = "Some"
    /\ Len(keyframes.filepositions) >= 2
    /\ HasKeyframesPair(result.patch.patched.second)
    /\ keyframes.offset > 0

\* C8: in every state of the scan the index holds as many times as file
\* positions, the times do not decrease and the file positions increase.
C8_IndexMonotonic ==
    /\ Len(keyframes.filepositions) = Len(keyframes.times)
    /\ \A i \in 1..(Len(keyframes.filepositions) - 1) :
         /\ keyframes.filepositions[i] < keyframes.filepositions[i + 1]
    /\ \A i \in 1..(Len(keyframes.times) - 1) :
         keyframes.times[i].n * keyframes.times[i + 1].d
            <= keyframes.times[i + 1].n * keyframes.times[i].d

C8_Witness ==
    /\ round = 1 /\ result.kind = "Running" /\ idx < Len(flv.tags)
    /\ Len(keyframes.filepositions) = 2
    /\ keyframes.times[1] # keyframes.times[2]

\* C9: once the scan has met an onMetaData tag whose metadata has a pair
\* keyed "keyframes", generate_patch has returned None at that tag, no later
\* tag was read, and generate_keyframes writes no sidecar.
C9_AlreadyPatchedShortCircuit ==
    \A i \in 1..idx :
        (IsOnMetaData(flv.tags[i]) /\ HasKeyframesPair(flv.tags[i].second))
            => /\ result.kind = "None"
               /\ idx = i
               /\ round = 1 => /\ sidecar \in {"pending", "none"}
                               /\ patch_file.kind = "Absent"

C9_Witness ==
    /\ round = 1 /\ result.kind = "None" /\ sidecar = "none"
    /\ idx >= 2 /\ idx < Len(flv.tags)
    /\ HasKeyframesPair(flv.tags[idx].second)

----------------------------------------------------------------------------
(* Properties of the scan of flv.rs, checked under SpecFlv                 *)

\* C10: for a well-formed FLV without an onMetaData tag (here: without any
\* script tag, the empty FLV included) generate_patch ends at the end of the
\* file with Ok(None), not with an error, and no sidecar is written.
C10_NoMetadataReturnsNone ==
    (/\ SubSeq(fbytes, 1, 4) = <<70, 76, 86, 1>>
     /\ \A i \in 1..Len(flv.tags) : flv.tags[i].type # "script"
     /\ result.kind \notin {"Header", "Running"})
        => /\ result.kind = "None"
           /\ sidecar # "written"

----------------------------------------------------------------------------
(* Properties of read_flv of flv_reader.rs, checked under SpecReader       *)

\* Bytes taken by the first i tags of a file, each with the 11-byte header,
\* its payload and the 4-byte previous-tag-size after it.
RECURSIVE TagsSpan(_, _)
TagsSpan(tags, i) ==
    IF i = 0 THEN 0 ELSE TagsSpan(tags, i - 1) + 11 + tags[i].data_size + 4

\* The file ends on a tag boundary: after the header or after a whole tag,
\* with or without the previous-tag-size that follows it.
EndsOnTagBoundary ==
    LET base == U32BE(SubSeq(fbytes, 6, 9)) + 4
    IN \E i \in 0..Len(flv.tags) :
         \/ Len(fbytes) = base + TagsSpan(flv.tags, i)
         \/ Len(fbytes) = base + TagsSpan(flv.tags, i) - 4

\* C11: the tag sequence of read_flv ends without error only when the end
\* of the file falls on a tag boundary; a file that ends inside a tag header
\* or inside the payload of an audio, video or script tag ends the scan with
\* an error.
C11_CleanEndOnlyAtTagBoundary ==
    result.kind = "End" => EndsOnTagBoundary

\* The position read_flv_tag starts its next read at.
NextTagRead ==
    IF result.kind = "Stream" THEN U32BE(SubSeq(fbytes, 6, 9)) ELSE fpos

\* C12: when the scan reads a tag whose type byte is none of 8, 9, 18, it
\* stops at that tag with an error: the tag is not yielded, and after the
\* error no tag is yielded and the result stays the error.
C12_UnknownTagTypeStops ==
    /\ [][(/\ result.kind \in {"Stream", "Running"}
           /\ NextTagRead + 15 <= Len(fbytes)
           /\ fbytes[NextTagRead + 5] \notin {8, 9, 18})
          => (/\ result'.kind = "Err"
              /\ idx' = idx
              /\ lastTag' = lastTag)]_vars
    /\ [][result.kind = "Err" => (result' = result /\ idx' = idx)]_vars

C12_Witness ==
    /\ result.kind = "Err"
    /\ Len(flv.tags) = 2 /\ flv.tags[1].type = "audio" /\ flv.tags[2].type = "other"
    /\ Len(fbytes) = 13 + TagsSpan(flv.tags, 2)
    /\ idx = 1 /\ lastTag.data = "Audio"
    /\ fpos = 13 + TagsSpan(flv.tags, 1) + 11

----------------------------------------------------------------------------
(* Properties of the header decoding, checked under SpecFlv                *)

\* C13: decoding nine header bytes succeeds exactly when they start with
\* "FLV" and version 1, and then has_audio is bit 2 of the flags byte,
\* has_video bit 0 and data_offset the last four bytes big-endian; and a
\* scan that has read a header without the signature has ended with an
\* error, no tag read.
C13_HeaderDecoding ==
    /\ \A b \in HeaderInputs :
         LET h == FlvHeader_from_bytes(b)
         IN /\ h.kind = "Some" <=> (b[1] = 70 /\ b[2] = 76 /\ b[3] = 86 /\ b[4] = 1)
            /\ h.kind = "Some" =>
                 /\ h.has_audio <=> b[5] \in {4, 5, 6, 7}
                 /\ h.has_video <=> b[5] \in {1, 3, 5, 7}
                 /\ h.data_offset = b[9] + 256 * (b[8] + 256 * (b[7] + 256 * b[6]))
    /\ (/\ result.kind # "Header"
        /\ Len(fbytes) >= 9
        /\ SubSeq(fbytes, 1, 3) # <<70, 76, 86>>)
           => (result.kind = "Err" /\ idx = 0)

----------------------------------------------------------------------------
(* Further properties of the patched reader, checked under Spec            *)

\* C14: a logical seek (Start, Current, or End taken against the logical
\* length) only sets the logical offset: the back-end reader is neither
\* sought nor read, and the file, patch and origin_length stay as they are.
C14_SeekIsBookkeeping ==
    [][\A position \in SeekPositions :
         start_seek(position) =>
           /\ offset' =
                CASE position.kind = "Start" -> position.i
                  [] position.kind = "Current" -> offset + position.i
                  [] position.kind = "End" ->
                       Len(original) + Len(patch.patched) - patch.origin_size
                         + position.i
           /\ reader_pos' = reader_pos
           /\ backSeeks' = 0
           /\ lastRead' = lastRead
           /\ original' = original
           /\ patch' = patch
           /\ origin_length' = origin_length
           /\ ~fault']_vars

C14_Witness ==
    /\ op = "seek" /\ ~fault
    /\ lastRead.from = "origin" /\ reader_pos = lastRead.at + lastRead.ret
    /\ offset = len
    /\ patched_len # patch.origin_size
    /\ patch.origin_pos > 0

\* C15: the first read after a logical seek to an offset at or beyond len()
\* returns zero bytes, without fault and without bytes of the original
\* file, and leaves the logical offset where the seek put it.
C15_ReadPastEndReturnsZero ==
    (op = "read" /\ reads = 1 /\ lastRead.at >= ViewLen)
        => /\ ~fault
           /\ lastRead.ret = 0
           /\ lastRead.data = <<>>
           /\ offset = lastRead.at

\* C17: two reads that each return bytes and together serve a contiguous
\* range inside the part of the original file before the patch issue at most
\* one back-end seek in all, and a read
\* whose target offset in the original is where the previous read left the
\* back-end issues no back-end seek.
C17_AtMostOneBackendSeek ==
    /\ []((/\ op = "read" /\ ~fault /\ reads = 2
           /\ lastRead.ret >= 1 /\ Len(acc) > lastRead.ret
           /\ seekFrom + Len(acc) <= patch.origin_pos)
            => backSeeks <= 1)
    /\ [][(/\ op = "read" /\ lastRead.from = "origin"
           /\ offset < patch.origin_pos /\ reader_pos = offset
           /\ op' = "read" /\ lastRead'.from = "origin")
          => backSeeks' = backSeeks]_vars

----------------------------------------------------------------------------
(* Properties of handle_get, checked under SpecServe                       *)

\* C16: a request with Range: bytes=a-b, a <= b < len, whose range was
\* taken against the length len of the view, is answered with
\* Content-Length b - a + 1 and a body that is the logical positions a..=b,
\* no more than b - a + 1 bytes.
C16_RangeContentLength ==
    (/\ streaming.req # 0 /\ streaming.range.kind = "bytes"
     /\ streaming.range.a <= streaming.range.b
     /\ streaming.range.b < streaming.total)
        => /\ streaming.status = "ok"
           /\ streaming.content_length
                = streaming.range.b - streaming.range.a + 1
           /\ seekFrom = streaming.range.a
           /\ ~fault
           /\ Len(acc) <= streaming.range.b - streaming.range.a + 1
           /\ acc = ViewRange(streaming.range.a, streaming.range.a + Len(acc))

\* C18: a request that found a sidecar that cannot be decoded into a Patch
\* does not fail: generate_patch is run again and the patched view served.
C18_CorruptSidecarRegenerates ==
    \A r \in 1..MaxRequests :
      (/\ requests[r].pc = "done" /\ requests[r].sidecar_read = "Corrupt"
       /\ source_present)
          => /\ ~(/\ requests[r].response.status = "not_found"
                  /\ requests[r].response.error = "sidecar")
             /\ requests[r].result.kind = "Some"

\* C19, for a file generate_patch returns a Patch for (for any other file
\* no sidecar is written): once a request for the file has been served, a
\* request that arrives later does not run generate_patch, and it is served
\* from the sidecar: it is answered with the view built on the Patch read
\* from it, unless the source file is gone or its Range is refused.
C19_ScanOnFirstRequestOnly ==
    \A r \in 1..MaxRequests :
      (generate_patch(flv).kind = "Some" /\ requests[r].after_served)
        => /\ requests[r].pc \notin {"generate", "into_std", "scan", "create",
                                     "write", "reopen"}
           /\ requests[r].result.kind = "Idle"
           /\ requests[r].pc = "done"
                => \/ /\ requests[r].response.status = "ok"
                      /\ requests[r].sidecar_read = "Some"
                   \/ /\ requests[r].response.status = "not_found"
                      /\ requests[r].response.error \in {"io", "InvalidData"}

----------------------------------------------------------------------------
(* Further properties of the scan of main.rs, checked under SpecScan       *)

\* C20: every Patch returned by generate_patch has origin_pos at the header
\* of an onMetaData tag of the file (the last one the scan took from the
\* decoder, when it took several), origin_size equal to that tag's size on
\* disk (11-byte header and payload) plus 4, and origin_pos + origin_size
\* within the length of the file, whatever the file.
C20_PatchWithinFile ==
    result.kind = "Some" =>
        \E m \in 1..idx :
          /\ IsOnMetaData(flv.tags[m])
          /\ \A j \in (m + 1)..idx : ~IsOnMetaData(flv.tags[j])
          /\ result.patch.origin_pos = 9 + 4 + TagsSpan(flv.tags, m - 1)
          /\ result.patch.origin_size = 11 + flv.tags[m].data_size + 4
          /\ result.patch.origin_pos + result.patch.origin_size
                <= 9 + 4 + TagsSpan(flv.tags, Len(flv.tags)) - flv.short

----------------------------------------------------------------------------
(* Further properties of the scans, checked under SpecFlv and SpecScan     *)

\* C21: while the scan runs, with idx tags of a well-formed file processed,
\* the running offset is the byte position of the header of the next tag:
\* data_offset + 4 at the start, advanced by the on-disk size of the tag
\* plus 4 after every tag, whatever its type.
C21_OffsetTracksTagPosition ==
    (/\ result.kind = "Running" /\ round = 1
     /\ idx <= Len(flv.tags)
     /\ fbytes # <<>> => SubSeq(fbytes, 1, 4) = <<70, 76, 86, 1>>)
        => scan_offset = 9 + 4 + TagsSpan(flv.tags, idx)

\* C22: the timestamp decoded for a tag header is timestamp_extended * 2^24
\* + timestamp_24, the 24-bit big-endian field at bytes 4..6 of the header
\* and the extended byte at byte 7 as the high byte.
C22_TimestampDecoding ==
    lastTag.kind = "Some" =>
        lastTag.timestamp =
            fbytes[lastTag.at + 8] * 16777216
              + fbytes[lastTag.at + 5] * 65536
              + fbytes[lastTag.at + 6] * 256
              + fbytes[lastTag.at + 7]

----------------------------------------------------------------------------
(* Further properties of the patched reader, checked under Spec            *)

\* C23: a read at logical offset origin_pos + p, 0 <= p < |patched|, into a
\* buffer of capacity c >= 1 does not fault, returns n = min(c, |patched| -
\* p) bytes that are patched[p .. p + n], advances the logical offset by n,
\* and neither seeks nor reads the back-end.
C23_ReadInsidePatch ==
    /\ []((/\ op = "read" /\ lastRead.cap >= 1
           /\ lastRead.at >= patch.origin_pos
           /\ lastRead.at < patch.origin_pos + Len(patch.patched))
            => LET q == lastRead.at - patch.origin_pos
                   n == Min(lastRead.cap, Len(patch.patched) - q)
               IN /\ ~fault
                  /\ lastRead.ret = n
                  /\ lastRead.data = SubSeq(patch.patched, q + 1, q + n)
                  /\ offset = lastRead.at + n)
    /\ [][(/\ op' = "read" /\ reads' = reads + 1 /\ lastRead'.cap >= 1
           /\ offset >= patch.origin_pos
           /\ offset < patch.origin_pos + Len(patch.patched))
          => (reader_pos' = reader_pos /\ backSeeks' = backSeeks)]_vars

----------------------------------------------------------------------------
(* The emitted index, checked under SpecScan                               *)

\* The keyframe tags of a file, as the indices of its tags in file order.
KeyframeIndices(tags) ==
    LET S == {i \in 1..Len(tags) : IsKeyframeTag(tags[i])}
        RECURSIVE Ordered(_, _)
        Ordered(i, acc0) ==
            IF i > Len(tags) THEN acc0
            ELSE Ordered(i + 1, IF i \in S THEN Append(acc0, i) ELSE acc0)
    IN Ordered(1, <<>>)

\* The times a patched metadata value carries.
EmittedTimes(md) ==
    IF HasKeyframesPair(md)
    THEN LET e == md.entries[Len(md.entries)]
             tm == e.value.entries[2].value.entries
         IN [i \in 1..Len(tm) |-> tm[i].value.num]
    ELSE <<>>

\* C24: for every Patch returned by generate_patch, each emitted
\* filepositions[i] is the offset in the original file of the i-th keyframe
\* tag plus |patched| - origin_size, each emitted times[i] is that tag's
\* timestamp in milliseconds divided by 1000, a metadata value that took the
\* index carries one entry per keyframe tag, and the stored positions are
\* the offsets in the original file, without the adjustment.
C24_EmittedIndexValues ==
    (round = 1 /\ result.kind = "Some") =>
        LET ks == KeyframeIndices(flv.tags)
            fps == EmittedFilePositions(result.patch.patched.second)
            tms == EmittedTimes(result.patch.patched.second)
            delta == result.patch.patched.len - result.patch.origin_size
        IN /\ Len(fps) <= Len(ks) /\ Len(tms) = Len(fps)
           /\ HasKeyframesPair(result.patch.patched.second)
                => Len(fps) = Len(ks)
           /\ \A i \in 1..Len(fps) :
                /\ fps[i] = 9 + 4 + TagsSpan(flv.tags, ks[i] - 1) + delta
                /\ tms[i].n * 1000 = flv.tags[ks[i]].timestamp * tms[i].d
           /\ Len(keyframes.filepositions) = Len(ks)
           /\ \A i \in 1..Len(ks) :
                keyframes.filepositions[i] =
                    9 + 4 + TagsSpan(flv.tags, ks[i] - 1)

----------------------------------------------------------------------------
(* Properties of a Read polled to completion, checked under SpecPoll       *)

\* C25: a Read served from the original file completes when the back-end
\* completes every operation after finitely many polls: a poll of a Read
\* that returned Pending does not hand the back-end a new seek, the logical
\* offset changes only when a Read completes, by the count of bytes filled,
\* and a Read that returned Pending eventually completes.
C25_PendingReadCompletes ==
    /\ [](~polled.restarted)
    /\ [][(offset' # offset /\ op' = "read")
            => (~polled'.active /\ offset' = offset + lastRead'.ret)]_vars
    /\ (polled.active ~> ~polled.active)

----------------------------------------------------------------------------
(* Properties of PatchedStream, checked under SpecStream                   *)

\* The bytes of the Ok items of a stream, in order.
RECURSIVE ItemBytes(_)
ItemBytes(items) ==
    IF items = <<>> THEN <<>> ELSE Head(items).bytes \o ItemBytes(Tail(items))

\* The underlying bytes with patch.patched after the first origin_pos.
Spliced(bytes) ==
    SubSeq(bytes, 1, patch.origin_pos)
    \o patch.patched
    \o SubSeq(bytes, patch.origin_pos + 1, Len(bytes))

IsPrefix(a, b) == Len(a) <= Len(b) /\ SubSeq(b, 1, Len(a)) = a

\* C26: whatever the chunking of an underlying stream that carries at least
\* origin_pos bytes, the split index lies within the chunk (no panic), what
\* has been emitted is a prefix of the underlying bytes with the patch bytes
\* after the first origin_pos of them, and at the end of the stream it is
\* all of that: the patch is emitted exactly once and every underlying byte
\* passes through in order.
C26_PatchSplicedOnce ==
    Len(ItemBytes(chunks)) >= patch.origin_pos =>
      /\ ps_state # "panic"
      /\ IsPrefix(ItemBytes(emitted), Spliced(ItemBytes(chunks)))
      /\ (ps_state = "ended"
            => ItemBytes(emitted) = Spliced(ItemBytes(chunks)))

====
